---- MODULE Spec2Model ----
(***************************************************************************)
(* Model of the hackathon repository analyzer (src/scan.py): the git-log   *)
(* parser collect_commit_data, the classifier/aggregator compute_metrics   *)
(* and the batch loop of main with its on-disk metrics cache.              *)
(*                                                                         *)
(* Times are integers: minutes on the UTC time line.  An Optional value is *)
(* a sequence of length 0 (None) or 1 (the value).                         *)
(***************************************************************************)
EXTENDS Integers, Sequences, FiniteSets, TLC

VARIABLES
    m_commits,    \* compute_metrics: the argument commits
    m_t0,         \* compute_metrics: the argument t0
    m_t1,         \* compute_metrics: the argument t1 (Optional)
    m_result,     \* compute_metrics: the returned dict (Optional)
    stream,       \* collect_commit_data: lines of result.stdout read so far
    commits,      \* collect_commit_data: the local list commits
    current,      \* collect_commit_data: the local accumulator current (Optional)
    pstate,       \* collect_commit_data: "reading", "done" (returned) or "error" (raised)
    phase,        \* main: "start", "loop" (in the for loop), "exited" or "aborted"
    run,          \* main: the number of this run of the program (its clock)
    force,        \* main: args.force
    no_update,    \* main: args.no_update
    row_idx,      \* main: position in rows of the row the for loop is at
    rows_done,    \* the number of roster rows processed over all runs so far
    summary_rows, \* main: the local list summary_rows
    log,          \* the lines logged by this run
    calls,        \* the pipeline steps this run has started, as <<repo_id, step>>
    cloned,       \* disk: whether work/repos/<id> exists
    metrics_json, \* disk: work/metrics/<id>.json
    commits_csv,  \* disk: work/metrics/<id>_commits.csv
    summary_csv   \* disk: work/summary/metrics_summary.csv

mvars == <<m_commits, m_t0, m_t1, m_result>>
pvars == <<stream, commits, current, pstate>>
runvars == <<phase, run, force, no_update, row_idx, rows_done, summary_rows, log, calls>>
diskvars == <<cloned, metrics_json, commits_csv, summary_csv>>
bvars == <<runvars, diskvars>>
vars == <<mvars, pvars, bvars>>

None == <<>>
Some(v) == <<v>>
IsNone(o) == o = <<>>
Val(o) == o[1]

(***************************************************************************)
(* Bounds of the model.                                                    *)
(***************************************************************************)
MaxCommits == 3
MaxLines == 4
MaxRepos == 2
MaxRuns == 2
MaxRowSteps == 4

(***************************************************************************)
(* Program constants.                                                      *)
(***************************************************************************)
BULK_INSERTION_THRESHOLD == 1000
BULK_FILES_THRESHOLD == 50

(***************************************************************************)
(* compute_metrics (src/scan.py 161-269)                                   *)
(***************************************************************************)

\* (a - b).total_seconds() / 60.0 for two datetimes given in minutes
MinutesBetween(a, b) == a - b

\* faulty variant: without the idx > 0 guard, commits[idx - 1] of the first commit is commits[-1]
MinutesSincePrev_Unguarded(cs, idx) ==
    Some(MinutesBetween(cs[idx].author_time,
                        cs[IF idx > 1 THEN idx - 1 ELSE Len(cs)].author_time))

\* lines 168-172: prev_time is the literal previous element of commits
MinutesSincePrev(cs, idx) ==
    IF idx > 1 THEN Some(MinutesBetween(cs[idx].author_time, cs[idx - 1].author_time))
    ELSE None

\* faulty variant: the lower bound of the window taken exclusive
IsDuring_StrictT0(time, t0, t1) ==
    IF ~IsNone(t1) THEN t0 < time /\ time <= Val(t1)
    ELSE time > t0

\* lines 174-178
IsDuring(time, t0, t1) ==
    IF ~IsNone(t1) THEN t0 <= time /\ time <= Val(t1)
    ELSE time >= t0

\* faulty variant: the else branch of "if t1" forgotten
IsAfterT1_NoElse(time, t1) ==
    IF ~IsNone(t1) THEN time > Val(t1)
    ELSE TRUE

\* lines 174-179
IsAfterT1(time, t1) ==
    IF ~IsNone(t1) THEN time > Val(t1)
    ELSE FALSE

\* line 180
IsBeforeT0(time, t0) == time < t0

\* faulty variant: the thresholds themselves are not bulk
FlagBulk_Strict(commit) ==
    \/ commit.insertions > BULK_INSERTION_THRESHOLD
    \/ commit.files_changed > BULK_FILES_THRESHOLD

\* lines 189-192
FlagBulk(commit) ==
    \/ commit.insertions >= BULK_INSERTION_THRESHOLD
    \/ commit.files_changed >= BULK_FILES_THRESHOLD

\* lines 194-204: the enriched commit, {**commit, ...}
Enrich(cs, idx, t0, t1) ==
    [sha |-> cs[idx].sha,
     author_time |-> cs[idx].author_time,
     insertions |-> cs[idx].insertions,
     deletions |-> cs[idx].deletions,
     files_changed |-> cs[idx].files_changed,
     is_merge |-> cs[idx].is_merge,
     minutes_since_prev_commit |-> MinutesSincePrev(cs, idx),
     minutes_since_t0 |-> MinutesBetween(cs[idx].author_time, t0),
     is_before_t0 |-> IsBeforeT0(cs[idx].author_time, t0),
     is_during_event |-> IsDuring(cs[idx].author_time, t0, t1),
     is_after_t1 |-> IsAfterT1(cs[idx].author_time, t1),
     flag_bulk_commit |-> FlagBulk(cs[idx])]

\* faulty variant: only the commits of the window are kept in the classified list
LoopBody_DropOutOfWindow(st, cs, idx, t0, t1) ==
    LET e == Enrich(cs, idx, t0, t1)
        msp == e.minutes_since_prev_commit
    IN [commits_enriched |->
            IF e.is_during_event THEN Append(st.commits_enriched, e)
            ELSE st.commits_enriched,
        minutes_between_all |->
            IF ~IsNone(msp) THEN Append(st.minutes_between_all, Val(msp))
            ELSE st.minutes_between_all,
        minutes_between_event |->
            IF e.is_during_event /\ ~IsNone(st.event_prev_time)
            THEN Append(st.minutes_between_event,
                        MinutesBetween(e.author_time, Val(st.event_prev_time)))
            ELSE st.minutes_between_event,
        event_prev_time |->
            IF e.is_during_event THEN Some(e.author_time) ELSE st.event_prev_time]

\* faulty variant: the running in-window reference follows every commit
LoopBody_PrevIsAnyCommit(st, cs, idx, t0, t1) ==
    LET e == Enrich(cs, idx, t0, t1)
        msp == e.minutes_since_prev_commit
    IN [commits_enriched |-> Append(st.commits_enriched, e),
        minutes_between_all |->
            IF ~IsNone(msp) THEN Append(st.minutes_between_all, Val(msp))
            ELSE st.minutes_between_all,
        minutes_between_event |->
            IF e.is_during_event /\ ~IsNone(st.event_prev_time)
            THEN Append(st.minutes_between_event,
                        MinutesBetween(e.author_time, Val(st.event_prev_time)))
            ELSE st.minutes_between_event,
        event_prev_time |-> Some(e.author_time)]

\* lines 162-204: one iteration of the for loop on the loop state st
LoopBody(st, cs, idx, t0, t1) ==
    LET e == Enrich(cs, idx, t0, t1)
        msp == e.minutes_since_prev_commit
    IN [commits_enriched |-> Append(st.commits_enriched, e),
        minutes_between_all |->
            IF ~IsNone(msp) THEN Append(st.minutes_between_all, Val(msp))
            ELSE st.minutes_between_all,
        minutes_between_event |->
            IF e.is_during_event /\ ~IsNone(st.event_prev_time)
            THEN Append(st.minutes_between_event,
                        MinutesBetween(e.author_time, Val(st.event_prev_time)))
            ELSE st.minutes_between_event,
        event_prev_time |->
            IF e.is_during_event THEN Some(e.author_time) ELSE st.event_prev_time]

RECURSIVE Loop(_, _, _, _, _)
Loop(st, cs, idx, t0, t1) ==
    IF idx > Len(cs) THEN st
    ELSE Loop(LoopBody(st, cs, idx, t0, t1), cs, idx + 1, t0, t1)

LoopInit ==
    [commits_enriched |-> <<>>, minutes_between_all |-> <<>>,
     minutes_between_event |-> <<>>, event_prev_time |-> None]

\* statistics.median, doubled so that it stays an integer:
\* the middle value of an odd count, the mean of the two middle values of an even one
Median2(values) ==
    LET s == SortSeq(values, LAMBDA a, b : a < b)
        n == Len(s)
    IN IF n % 2 = 1 THEN 2 * s[(n + 1) \div 2]
       ELSE s[n \div 2] + s[n \div 2 + 1]

\* faulty variant: the median of no values is zero
safe_median_ZeroIfEmpty(values) == IF Len(values) > 0 THEN Some(Median2(values)) ELSE Some(0)

\* lines 206-207 (the median is kept doubled, see Median2)
safe_median(values) == IF Len(values) > 0 THEN Some(Median2(values)) ELSE None

\* lines 214-215: sum(c[field] for c in commits_enriched), from index i on
RECURSIVE SumInsertions(_, _)
SumInsertions(s, i) == IF i > Len(s) THEN 0 ELSE s[i].insertions + SumInsertions(s, i + 1)

RECURSIVE SumDeletions(_, _)
SumDeletions(s, i) == IF i > Len(s) THEN 0 ELSE s[i].deletions + SumDeletions(s, i + 1)

\* lines 210-212: sum(1 for c in commits_enriched if c[...])
CountBefore(ce) == Cardinality({i \in 1..Len(ce) : ce[i].is_before_t0})
CountDuring(ce) == Cardinality({i \in 1..Len(ce) : ce[i].is_during_event})
CountAfter(ce) == Cardinality({i \in 1..Len(ce) : ce[i].is_after_t1})

\* max of a set of naturals, 0 for the empty set: max(..., default=0)
MaxOrZero(S) == IF S = {} THEN 0 ELSE CHOOSE m \in S : \A x \in S : x <= m

\* lines 216-217
MaxInsertions(ce) == MaxOrZero({ce[i].insertions : i \in 1..Len(ce)})
MaxFilesChanged(ce) == MaxOrZero({ce[i].files_changed : i \in 1..Len(ce)})

\* line 230, in minutes: hours * 60
ElapsedMinutes(c, t0) == MinutesBetween(c.author_time, t0)

\* faulty variant: the bucket edges taken upper-inclusive
Bucket_UpperInclusive(c, t0) ==
    LET m == ElapsedMinutes(c, t0)
    IN IF ~c.is_during_event THEN ""
       ELSE IF 0 <= m /\ m <= 3 * 60 THEN "commits_0_3h"
       ELSE IF 3 * 60 < m /\ m <= 6 * 60 THEN "commits_3_6h"
       ELSE IF 6 * 60 < m /\ m <= 12 * 60 THEN "commits_6_12h"
       ELSE IF 12 * 60 < m /\ m <= 24 * 60 THEN "commits_12_24h"
       ELSE IF m > 24 * 60 THEN "commits_after_24h"
       ELSE ""

\* faulty variant: a commit exactly 24 hours after t0 falls between the last two buckets
Bucket_GapAt24h(c, t0) ==
    LET m == ElapsedMinutes(c, t0)
    IN IF ~c.is_during_event THEN ""
       ELSE IF 0 <= m /\ m < 3 * 60 THEN "commits_0_3h"
       ELSE IF 3 * 60 <= m /\ m < 6 * 60 THEN "commits_3_6h"
       ELSE IF 6 * 60 <= m /\ m < 12 * 60 THEN "commits_6_12h"
       ELSE IF 12 * 60 <= m /\ m < 24 * 60 THEN "commits_12_24h"
       ELSE IF m > 24 * 60 THEN "commits_after_24h"
       ELSE ""

\* lines 228-240: the bucket one enriched commit is counted in ("" for none)
Bucket(c, t0) ==
    LET m == ElapsedMinutes(c, t0)
    IN IF ~c.is_during_event THEN ""
       ELSE IF 0 <= m /\ m < 3 * 60 THEN "commits_0_3h"
       ELSE IF 3 * 60 <= m /\ m < 6 * 60 THEN "commits_3_6h"
       ELSE IF 6 * 60 <= m /\ m < 12 * 60 THEN "commits_6_12h"
       ELSE IF 12 * 60 <= m /\ m < 24 * 60 THEN "commits_12_24h"
       ELSE IF m >= 24 * 60 THEN "commits_after_24h"
       ELSE ""

BucketNames ==
    {"commits_0_3h", "commits_3_6h", "commits_6_12h", "commits_12_24h", "commits_after_24h"}

\* lines 219-240
Buckets(enriched, t0) ==
    [b \in BucketNames |->
        Cardinality({i \in 1..Len(enriched) : Bucket(enriched[i], t0) = b})]

\* line 242: next((c for c in commits_enriched if c["is_during_event"]), None)
FirstDuring(enriched) ==
    LET idxs == {i \in 1..Len(enriched) : enriched[i].is_during_event}
    IN IF idxs = {} THEN None
       ELSE Some(enriched[CHOOSE i \in idxs : \A j \in idxs : i <= j])

\* faulty variant: the first commit of the sequence looked at instead of the first in-window one
HasLargeInitial_FirstOverall(enriched) ==
    /\ Len(enriched) > 0
    /\ enriched[1].is_during_event
    /\ enriched[1].flag_bulk_commit

\* line 243
HasLargeInitial(enriched) ==
    LET first_during == FirstDuring(enriched)
    IN ~IsNone(first_during) /\ Val(first_during).flag_bulk_commit

\* faulty variant: a commit made exactly at t0 does not count for the flag
HasBulkCommits_StrictlyAfterT0(enriched) ==
    \E i \in 1..Len(enriched) :
        /\ enriched[i].flag_bulk_commit
        /\ enriched[i].is_during_event
        /\ enriched[i].minutes_since_t0 > 0

\* faulty variant: a bulk commit sets the flag wherever it lies
HasBulkCommits_AnyWindow(enriched) ==
    \E i \in 1..Len(enriched) : enriched[i].flag_bulk_commit

\* lines 261-263
HasBulkCommits(enriched) ==
    \E i \in 1..Len(enriched) :
        enriched[i].flag_bulk_commit /\ enriched[i].is_during_event

\* lines 161-269
compute_metrics(cs, t0, t1) ==
    LET st == Loop(LoopInit, cs, 1, t0, t1)
        ce == st.commits_enriched
        before == CountBefore(ce)
    IN [summary |->
            [total_commits |-> Len(ce),
             total_commits_before_t0 |-> before,
             total_commits_during_event |-> CountDuring(ce),
             total_commits_after_t1 |-> CountAfter(ce),
             total_loc_added |-> SumInsertions(ce, 1),
             total_loc_deleted |-> SumDeletions(ce, 1),
             max_loc_added_single_commit |-> MaxInsertions(ce),
             max_files_changed_single_commit |-> MaxFilesChanged(ce),
             median_minutes_between_commits |-> safe_median(st.minutes_between_all),
             median_minutes_between_commits_during_event |->
                 safe_median(st.minutes_between_event)],
        time_distribution |-> Buckets(ce, t0),
        flags |->
            [has_commits_before_t0 |-> before > 0,
             has_bulk_commits |-> HasBulkCommits(ce),
             has_large_initial_commit_after_t0 |-> HasLargeInitial(ce),
             has_merge_commits |-> \E i \in 1..Len(ce) : ce[i].is_merge],
        commits |-> ce]

(***************************************************************************)
(* parse_iso_datetime (src/scan.py 21-28).  An ISO string is a wall-clock  *)
(* time in minutes with a zone designator: "Z", "" (naive) or "+01:00";    *)
(* "bad" is a string datetime.fromisoformat rejects.                       *)
(***************************************************************************)
UtcOffset(tz) == IF tz = "+01:00" THEN 60 ELSE 0

\* lines 23-28: "Z" is read as +00:00, a naive time is taken as UTC, and the
\* result is the instant on the UTC time line
parse_iso_datetime(iso) == iso.wall - UtcOffset(iso.tz)

\* datetime.fromisoformat raises ValueError
IsoParses(iso) == iso.tz # "bad"

(***************************************************************************)
(* collect_commit_data (src/scan.py 104-158): the loop over the lines of   *)
(* git log --reverse --pretty=format:%H%x1f%aI%x1f%an%x1f%ae%x1f%P%x1f%s   *)
(* --numstat.  A line is described by what the parser looks at: whether it *)
(* is whitespace only, how many 0x1f and how many tab characters it holds, *)
(* and the text of the fields the parser converts.                         *)
(***************************************************************************)
HeaderLine(iso, parents_raw) ==
    [blank |-> FALSE, us |-> 5, tabs |-> 0, sha |-> 0, iso |-> iso,
     parents_raw |-> parents_raw, ins_raw |-> "", del_raw |-> ""]

NumstatLine(ins_raw, del_raw) ==
    [blank |-> FALSE, us |-> 0, tabs |-> 2, sha |-> 0, iso |-> [wall |-> 0, tz |-> ""],
     parents_raw |-> <<>>, ins_raw |-> ins_raw, del_raw |-> del_raw]

BlankLine ==
    [blank |-> TRUE, us |-> 0, tabs |-> 0, sha |-> 0, iso |-> [wall |-> 0, tz |-> ""],
     parents_raw |-> <<>>, ins_raw |-> "", del_raw |-> ""]

\* a line with neither 0x1f nor tab in it
TextLine ==
    [blank |-> FALSE, us |-> 0, tabs |-> 0, sha |-> 0, iso |-> [wall |-> 0, tz |-> ""],
     parents_raw |-> <<>>, ins_raw |-> "", del_raw |-> ""]

\* a header line whose subject itself holds a 0x1f: seven fields, not six
LongHeaderLine ==
    [blank |-> FALSE, us |-> 6, tabs |-> 0, sha |-> 0, iso |-> [wall |-> 20, tz |-> ""],
     parents_raw |-> <<>>, ins_raw |-> "", del_raw |-> ""]

\* len(line.split("\x1f")), len(line.split("\t"))
UsParts(line) == line.us + 1
TabParts(line) == line.tabs + 1

\* str.isdigit and int of a numstat field: "-" is what git prints for a binary file
IsDigit(raw) == raw \in {"2", "3"}
IntOf(raw) == IF raw = "2" THEN 2 ELSE 3

\* line 150-151: int(x) if x.isdigit() else 0
CountOf(raw) == IF IsDigit(raw) THEN IntOf(raw) ELSE 0

\* lines 131-144: the accumulator opened from the six fields of a header line
NewCommit(line) ==
    [sha |-> line.sha,
     author_time |-> parse_iso_datetime(line.iso),
     parents |-> line.parents_raw,
     is_merge |-> Len(line.parents_raw) > 1,
     insertions |-> 0,
     deletions |-> 0,
     files_changed |-> 0]

\* faulty variant: a line whose two counts are both "-" is not counted as a file
AddNumstat_SkipBinary(cur, line) ==
    IF ~IsDigit(line.ins_raw) /\ ~IsDigit(line.del_raw)
    THEN cur
    ELSE [cur EXCEPT !.insertions = @ + CountOf(line.ins_raw),
                     !.deletions = @ + CountOf(line.del_raw),
                     !.files_changed = @ + 1]

\* lines 149-154
AddNumstat(cur, line) ==
    [cur EXCEPT !.insertions = @ + CountOf(line.ins_raw),
                !.deletions = @ + CountOf(line.del_raw),
                !.files_changed = @ + 1]

\* faulty variant: the flushed commit put at the front of the list
AppendCommit_AtFront(list, cur) == <<cur>> \o list

\* lines 124, 157: commits.append(current)
AppendCommit(list, cur) == Append(list, cur)

IsoTimes ==
    {[wall |-> 10, tz |-> "Z"], [wall |-> 20, tz |-> ""], [wall |-> 70, tz |-> "+01:00"]}

LineShapes ==
    {HeaderLine(iso, <<>>) : iso \in IsoTimes}
        \cup {HeaderLine([wall |-> 20, tz |-> ""], <<"p", "q">>)}
        \cup {NumstatLine(i, d) : i \in {"3", "-"}, d \in {"2", "-"}}
        \cup {BlankLine, TextLine, LongHeaderLine}

AbsentFile == [state |-> "absent", gen |-> 0]

BIdle ==
    /\ phase = "idle"
    /\ run = 0
    /\ force = FALSE
    /\ no_update = FALSE
    /\ row_idx = 0
    /\ rows_done = 0
    /\ summary_rows = <<>>
    /\ log = <<>>
    /\ calls = <<>>
    /\ cloned = <<>>
    /\ metrics_json = <<>>
    /\ commits_csv = <<>>
    /\ summary_csv = None

MIdle ==
    /\ m_commits = <<>>
    /\ m_t0 = 0
    /\ m_t1 = None
    /\ m_result = None

PInit ==
    /\ stream = <<>>
    /\ commits = <<>>
    /\ current = None
    /\ pstate = "reading"
    /\ MIdle
    /\ BIdle

\* lines 121-154: one iteration of the for loop, on the next line of the stream
ReadLine(line) ==
    /\ pstate = "reading"
    /\ Len(stream) < MaxLines
    /\ stream' = Append(stream, line)
    /\ IF line.blank
       THEN \* lines 122-126
            /\ commits' = IF ~IsNone(current) THEN AppendCommit(commits, Val(current))
                          ELSE commits
            /\ current' = None
            /\ pstate' = pstate
       ELSE IF IsNone(current)
       THEN \* lines 127-145
            IF UsParts(line) # 6 \/ ~IsoParses(line.iso)
            THEN /\ pstate' = "error"
                 /\ UNCHANGED <<commits, current>>
            ELSE /\ current' = Some(NewCommit(line))
                 /\ UNCHANGED <<commits, pstate>>
       ELSE \* lines 146-154
            IF TabParts(line) # 3
            THEN UNCHANGED <<commits, current, pstate>>
            ELSE /\ current' = Some(AddNumstat(Val(current), line))
                 /\ UNCHANGED <<commits, pstate>>
    /\ UNCHANGED <<mvars, bvars>>

\* faulty variant: no flush after the loop, a commit still open at the end is lost
EndOfStream_NoFlush ==
    /\ pstate = "reading"
    /\ commits' = commits
    /\ current' = None
    /\ pstate' = "done"
    /\ UNCHANGED <<stream, mvars, bvars>>

\* lines 156-158: the stream ends
EndOfStream ==
    /\ pstate = "reading"
    /\ commits' = IF ~IsNone(current) THEN AppendCommit(commits, Val(current)) ELSE commits
    /\ current' = None
    /\ pstate' = "done"
    /\ UNCHANGED <<stream, mvars, bvars>>

PNext ==
    \/ \E shape \in LineShapes : ReadLine([shape EXCEPT !.sha = Len(stream) + 1])
    \/ EndOfStream

SpecParse == PInit /\ [][PNext]_vars

(***************************************************************************)
(* Inputs of compute_metrics: commit sequences of at most MaxCommits       *)
(* commits whose times lie around t0, the bucket edges and t1, and whose   *)
(* sizes lie around the two bulk thresholds.  The history of a repository  *)
(* grows by one commit between two calls.                                  *)
(***************************************************************************)
TimePoints == {-60, 0, 179, 180, 360, 720, 1440, 1500}

SmallSize == [insertions |-> 999, files_changed |-> 49, deletions |-> 2000]
ManyLines == [insertions |-> 1000, files_changed |-> 1, deletions |-> 0]
ManyFiles == [insertions |-> 0, files_changed |-> 50, deletions |-> 0]

CommitShapes ==
    {[author_time |-> t, size |-> z] : t \in TimePoints, z \in {SmallSize, ManyLines}}
        \cup {[author_time |-> t, size |-> ManyFiles] : t \in {0, 180}}

\* <<t0, t1>>; the last one is not well-formed (t1 < t0)
Windows ==
    {<<0, None>>, <<0, Some(1440)>>, <<180, Some(1440)>>, <<180, Some(0)>>}

CommitAt(i, shape) ==
    [sha |-> i, author_time |-> shape.author_time, insertions |-> shape.size.insertions,
     deletions |-> shape.size.deletions, files_changed |-> shape.size.files_changed,
     is_merge |-> FALSE]

PIdle ==
    /\ stream = <<>>
    /\ commits = <<>>
    /\ current = None
    /\ pstate = "idle"

MInit ==
    /\ m_commits = <<>>
    /\ \E w \in Windows : m_t0 = w[1] /\ m_t1 = w[2]
    /\ m_result = None
    /\ PIdle
    /\ BIdle

\* compute_metrics(commits, t0, t1) on the empty history
ComputeEmpty ==
    /\ IsNone(m_result)
    /\ m_result' = Some(compute_metrics(m_commits, m_t0, m_t1))
    /\ UNCHANGED <<m_commits, m_t0, m_t1, pvars, bvars>>

\* compute_metrics(commits, t0, t1) on the history grown by one commit
ComputeGrown(shape) ==
    /\ Len(m_commits) < MaxCommits
    /\ m_commits' = Append(m_commits, CommitAt(Len(m_commits) + 1, shape))
    /\ m_result' = Some(compute_metrics(m_commits', m_t0, m_t1))
    /\ UNCHANGED <<m_t0, m_t1, pvars, bvars>>

MNext ==
    \/ ComputeEmpty
    \/ \E shape \in CommitShapes : ComputeGrown(shape)

SpecMetrics == MInit /\ [][MNext]_vars

(***************************************************************************)
(* main (src/scan.py 425-532): one run of the program over a roster of     *)
(* MaxRepos rows with the ids 1..MaxRepos, and the files it keeps between  *)
(* runs.  A file on disk is absent, valid (completely written) or partial  *)
(* (opened for writing and not completely written); gen is the run that    *)
(* wrote it, which stands for its content (generated_at and the metrics of *)
(* the history as fetched by that run).                                    *)
(***************************************************************************)
RepoIds == 1..MaxRepos

ValidFile(gen) == [state |-> "valid", gen |-> gen]
PartialFile(gen) == [state |-> "partial", gen |-> gen]

GoodIso == [wall |-> 0, tz |-> "Z"]
BadIso == [wall |-> 0, tz |-> "bad"]

\* lines 79-101 and 493-508: the steps of the pipeline of one repository, in order
PipelineSteps(is_cloned, update) ==
    (IF ~is_cloned THEN <<"clone">>
     ELSE IF update THEN <<"fetch", "default_branch_update", "checkout_update", "reset">>
     ELSE <<>>)
        \o <<"default_branch", "checkout", "log", "parse", "compute_metrics",
             "remote_url", "write_commit_csv", "write_metrics_json">>

\* the steps that can raise: a git command that exits non-zero (lines 87, 92, 75, 96,
\* 99, 106, 115), a header that does not parse (line 130) and a write that fails
\* (lines 290, 341); compute_metrics raises nothing and the exit status of the
\* remote.origin.url query is only looked at (line 497)
CanRaise(step) == step \notin {"compute_metrics", "remote_url"}

\* faulty variant: no try/except around the pipeline, the exception ends the for loop
AfterFailure_Abort(i) == MaxRepos + 1

\* lines 518-520: except Exception: log and continue with the next row
AfterFailure(i) == i + 1

\* faulty variant: an invalid t0 override ends the for loop (break for continue)
AfterInvalidT0_Break(i) == MaxRepos + 1

\* lines 470-472: except Exception: log and continue with the next row
AfterInvalidT0(i) == i + 1

\* faulty variant: a file that cannot be loaded is treated as no cache
UseCache_OnlyIfLoadable(file, a_force) == file.state = "valid" /\ ~a_force

\* line 481: metrics_json_path.exists() and not args.force
UseCache(file, a_force) == file.state # "absent" /\ ~a_force

\* lines 391-422: the summary row of a repository, from freshly computed or loaded metrics
build_summary_row(repo_id, metrics_gen) == [repo_id |-> repo_id, gen |-> metrics_gen]

LogLine(msg, repo_id) == [msg |-> msg, repo_id |-> repo_id]

BInit ==
    /\ phase = "start"
    /\ run = 0
    /\ force = FALSE
    /\ no_update = FALSE
    /\ row_idx = 0
    /\ rows_done = 0
    /\ summary_rows = <<>>
    /\ log = <<>>
    /\ calls = <<>>
    /\ cloned = [r \in RepoIds |-> FALSE]
    /\ metrics_json = [r \in RepoIds |-> AbsentFile]
    /\ commits_csv = [r \in RepoIds |-> AbsentFile]
    /\ summary_csv = None
    /\ MIdle
    /\ PIdle

\* lines 425-462: the program is started with its arguments
StartRun(a_force, a_no_update, a_t0, a_t1) ==
    /\ phase \in {"start", "exited", "aborted"}
    /\ run < MaxRuns
    /\ run' = run + 1
    /\ force' = a_force
    /\ no_update' = a_no_update
    /\ summary_rows' = <<>>
    /\ calls' = <<>>
    /\ IF ~IsoParses(a_t0)
       THEN \* lines 442-444
            /\ log' = <<LogLine("Failed to parse global t0", 0)>>
            /\ phase' = "aborted"
            /\ row_idx' = 0
       ELSE IF ~IsNone(a_t1) /\ ~IsoParses(Val(a_t1))
       THEN \* lines 449-451
            /\ log' = <<LogLine("Failed to parse global t1", 0)>>
            /\ phase' = "aborted"
            /\ row_idx' = 0
       ELSE /\ log' = <<>>
            /\ phase' = "loop"
            /\ row_idx' = 1
    /\ UNCHANGED <<rows_done, diskvars, mvars, pvars>>

\* lines 464-525: the body of the for loop for the row at row_idx.  t0_value is the
\* row's t0 column (None for an empty one); fail is the position of the pipeline step
\* that raises (0: none); torn tells whether a write that raises had created its file
ProcessRow(t0_value, fail, torn) ==
    LET repo_id == row_idx
        steps == PipelineSteps(cloned[repo_id], ~no_update)
        started == IF fail = 0 THEN steps ELSE SubSeq(steps, 1, fail)
        done == IF fail = 0 THEN steps ELSE SubSeq(steps, 1, fail - 1)
        Started(step) == \E k \in 1..Len(started) : started[k] = step
        Done(step) == \E k \in 1..Len(done) : done[k] = step
        Written(old, step) ==
            IF Done(step) THEN ValidFile(run)
            ELSE IF Started(step) /\ torn THEN PartialFile(run)
            ELSE old
    IN
    /\ phase = "loop"
    /\ row_idx <= MaxRepos
    /\ rows_done < MaxRowSteps
    /\ rows_done' = rows_done + 1
    /\ fail \in 0..Len(steps)
    /\ fail > 0 => CanRaise(steps[fail])
    /\ UNCHANGED <<phase, run, force, no_update, summary_csv, mvars, pvars>>
    /\ IF ~IsNone(t0_value) /\ ~IsoParses(Val(t0_value))
       THEN \* lines 470-472
            /\ log' = Append(log, LogLine("Invalid t0 for repo", repo_id))
            /\ row_idx' = AfterInvalidT0(row_idx)
            /\ UNCHANGED <<summary_rows, calls, cloned, metrics_json, commits_csv>>
       ELSE IF UseCache(metrics_json[repo_id], force)
       THEN \* lines 481-489, 522-525
            IF metrics_json[repo_id].state = "valid"
            THEN /\ log' = Append(log, LogLine("Skipping (cached metrics found)", repo_id))
                 /\ summary_rows' =
                        Append(summary_rows,
                               build_summary_row(repo_id, metrics_json[repo_id].gen))
                 /\ row_idx' = row_idx + 1
                 /\ UNCHANGED <<calls, cloned, metrics_json, commits_csv>>
            ELSE /\ log' = log \o <<LogLine("Skipping (cached metrics found)", repo_id),
                                    LogLine("Failed to load cached metrics", repo_id)>>
                 /\ row_idx' = row_idx + 1
                 /\ UNCHANGED <<summary_rows, calls, cloned, metrics_json, commits_csv>>
       ELSE \* lines 491-525
            /\ calls' = calls \o [k \in 1..Len(started) |-> <<repo_id, started[k]>>]
            /\ cloned' = [cloned EXCEPT ![repo_id] = @ \/ Done("clone")]
            /\ commits_csv' =
                    [commits_csv EXCEPT ![repo_id] = Written(@, "write_commit_csv")]
            /\ metrics_json' =
                    [metrics_json EXCEPT ![repo_id] = Written(@, "write_metrics_json")]
            /\ IF fail = 0
               THEN /\ log' = Append(log, LogLine("Processed", repo_id))
                    /\ summary_rows' =
                            Append(summary_rows, build_summary_row(repo_id, run))
                    /\ row_idx' = row_idx + 1
               ELSE /\ log' = Append(log, LogLine("Failed processing", repo_id))
                    /\ summary_rows' = summary_rows
                    /\ row_idx' = AfterFailure(row_idx)

\* lines 527-532: after the for loop
FinishRun ==
    /\ phase = "loop"
    /\ row_idx > MaxRepos
    /\ phase' = "exited"
    /\ summary_csv' = IF Len(summary_rows) > 0 THEN Some(summary_rows) ELSE summary_csv
    /\ log' = Append(log, LogLine(IF Len(summary_rows) > 0 THEN "Wrote summary CSV"
                                  ELSE "No summary rows generated", 0))
    /\ UNCHANGED <<run, force, no_update, row_idx, rows_done, summary_rows, calls,
                   cloned, metrics_json, commits_csv, mvars, pvars>>

BNext ==
    \/ \E a_force, a_no_update \in BOOLEAN, a_t0 \in {GoodIso, BadIso},
          a_t1 \in {None, Some(GoodIso), Some(BadIso)} :
            StartRun(a_force, a_no_update, a_t0, a_t1)
    \/ \E t0_value \in {None, Some(GoodIso), Some(BadIso)},
          fail \in 0..Len(PipelineSteps(TRUE, TRUE)), torn \in BOOLEAN :
            ProcessRow(t0_value, fail, torn)
    \/ FinishRun

SpecMain == BInit /\ [][BNext]_vars

(***************************************************************************)
(* Claims about compute_metrics, checked under SpecMetrics.                *)
(***************************************************************************)
Computed == ~IsNone(m_result)
Out == Val(m_result)
Classified == Out.commits
Idx == 1..Len(Classified)

BoolToNat(b) == IF b THEN 1 ELSE 0

\* C1: when t1 is set and t0 <= t1, every commit has exactly one of is_before_t0,
\* is_during_event, is_after_t1, and a commit at t0 or at t1 is is_during_event
\* and neither before nor after.
C1_ExactlyOneClass ==
    (Computed /\ ~IsNone(m_t1) /\ m_t0 <= Val(m_t1)) =>
        \A i \in Idx :
            LET c == Classified[i]
            IN /\ BoolToNat(c.is_before_t0) + BoolToNat(c.is_during_event)
                    + BoolToNat(c.is_after_t1) = 1
               /\ c.author_time \in {m_t0, Val(m_t1)} =>
                    c.is_during_event /\ ~c.is_before_t0 /\ ~c.is_after_t1

\* a well-formed window with a commit at t0, one at t1 and one after t1
C1_Witness ==
    /\ Computed /\ ~IsNone(m_t1) /\ m_t0 < Val(m_t1)
    /\ \E i, j, k \in Idx :
        /\ m_commits[i].author_time = m_t0
        /\ m_commits[j].author_time = Val(m_t1)
        /\ Classified[k].is_after_t1

\* C6: has_large_initial_commit_after_t0 is true iff the first commit in sequence
\* order that is is_during_event is also flag_bulk_commit; false when no commit is
\* in-window, whatever bulk commits lie before t0 or later in the window.
C6_LargeInitialIsFirstInWindow ==
    Computed =>
        (Out.flags.has_large_initial_commit_after_t0 <=>
            \E i \in Idx :
                /\ Classified[i].is_during_event
                /\ Classified[i].flag_bulk_commit
                /\ \A j \in 1..(i - 1) : ~Classified[j].is_during_event)

\* a bulk commit before t0, then a small first in-window commit, then a bulk
\* in-window commit: the flag stays false
C6_Witness ==
    /\ Computed /\ Len(Classified) = 3
    /\ Classified[1].is_before_t0 /\ Classified[1].flag_bulk_commit
    /\ Classified[2].is_during_event /\ ~Classified[2].flag_bulk_commit
    /\ Classified[3].is_during_event /\ Classified[3].flag_bulk_commit
    /\ ~Out.flags.has_large_initial_commit_after_t0

\* the five buckets as half-open intervals of minutes since t0 (hi = -1: unbounded)
BucketEdges ==
    [commits_0_3h |-> <<0, 180>>, commits_3_6h |-> <<180, 360>>,
     commits_6_12h |-> <<360, 720>>, commits_12_24h |-> <<720, 1440>>,
     commits_after_24h |-> <<1440, -1>>]

InEdges(b, elapsed) ==
    /\ BucketEdges[b][1] <= elapsed
    /\ BucketEdges[b][2] = -1 \/ elapsed < BucketEdges[b][2]

\* C7: the histogram counts in-window commits only, by elapsed time since t0, into
\* [0,3h), [3h,6h), [6h,12h), [12h,24h), [24h,inf): a commit exactly on an edge is
\* counted in the later bucket, a commit that is not is_during_event in none.
C7_BucketsHalfOpen ==
    Computed =>
        \A b \in BucketNames :
            Out.time_distribution[b] =
                Cardinality({i \in Idx :
                    /\ Classified[i].is_during_event
                    /\ InEdges(b, m_commits[i].author_time - m_t0)})

\* an out-of-window commit and in-window commits exactly 3h and 24h after t0
C7_Witness ==
    /\ Computed /\ Len(Classified) = 3
    /\ \E i, j, k \in Idx :
        /\ ~Classified[i].is_during_event
        /\ Classified[j].is_during_event /\ m_commits[j].author_time - m_t0 = 180
        /\ Classified[k].is_during_event /\ m_commits[k].author_time - m_t0 = 1440
    /\ Out.time_distribution["commits_3_6h"] = 1
    /\ Out.time_distribution["commits_after_24h"] = 1
    /\ Out.time_distribution["commits_0_3h"] = 0

\* C8: minutes_since_prev_commit is absent for the first commit and, for every
\* later one, author_time[i] - author_time[i-1] in minutes, i-1 being the literal
\* previous commit of the full sequence whatever its window membership.
C8_MinutesSincePrev ==
    Computed =>
        \A i \in Idx :
            IF i = 1 THEN Classified[i].minutes_since_prev_commit = None
            ELSE Classified[i].minutes_since_prev_commit =
                    Some(m_commits[i].author_time - m_commits[i - 1].author_time)

\* two in-window commits with an out-of-window commit between them: the third
\* commit's gap is measured from the second, not from the first
C8_Witness ==
    /\ Computed /\ Len(Classified) = 3
    /\ Classified[1].is_during_event
    /\ ~Classified[2].is_during_event
    /\ Classified[3].is_during_event
    /\ m_commits[1].author_time # m_commits[2].author_time
    /\ Classified[3].minutes_since_prev_commit =
            Some(m_commits[3].author_time - m_commits[2].author_time)

\* C9: when t1 is absent, is_after_t1 is false for every commit, is_during_event
\* holds exactly when author_time >= t0, every commit is exactly one of
\* before/during, and total_commits_after_t1 is 0.
C9_NoT1 ==
    (Computed /\ IsNone(m_t1)) =>
        /\ \A i \in Idx :
            LET c == Classified[i]
            IN /\ ~c.is_after_t1
               /\ c.is_during_event <=> (m_commits[i].author_time >= m_t0)
               /\ c.is_before_t0 # c.is_during_event
        /\ Out.summary.total_commits_after_t1 = 0

\* no t1, with a commit before t0, one at t0 and one more than 24h after it
C9_Witness ==
    /\ Computed /\ IsNone(m_t1)
    /\ \E i, j, k \in Idx :
        /\ Classified[i].is_before_t0
        /\ m_commits[j].author_time = m_t0
        /\ m_commits[k].author_time > m_t0 + 1440
    /\ Out.summary.total_commits_during_event = 2

(***************************************************************************)
(* Claims about collect_commit_data, checked under SpecParse.              *)
(***************************************************************************)
\* a header line of the stream: six 0x1f-separated fields
IsHeader(line) == ~line.blank /\ UsParts(line) = 6
IsNumstat(line) == ~line.blank /\ TabParts(line) = 3

HeaderPositions == {i \in 1..Len(stream) : IsHeader(stream[i])}

\* the numstat lines that follow the header at position h up to the next header
NumstatAfter(h) ==
    {j \in (h + 1)..Len(stream) :
        /\ IsNumstat(stream[j])
        /\ \A k \in (h + 1)..j : ~IsHeader(stream[k])}

NonDecreasing(s) == \A i \in 1..(Len(s) - 1) : s[i] <= s[i + 1]

CommitTimes == [i \in 1..Len(commits) |-> commits[i].author_time]

HeaderTimes ==
    LET hs == SelectSeq(stream, IsHeader)
    IN [i \in 1..Len(hs) |-> parse_iso_datetime(hs[i].iso)]

\* C2: the parser emits exactly one Commit per header line of the stream, in stream
\* order, each with the file counts of the numstat lines of its own header: a
\* header that arrives while a commit is open flushes it and opens the next one.
\* (The sha of a header line is its position in the stream.)
C2_OneCommitPerHeader ==
    pstate = "done" =>
        /\ Len(commits) = Cardinality(HeaderPositions)
        /\ \A k \in 1..Len(commits) :
            /\ commits[k].sha \in HeaderPositions
            /\ commits[k].files_changed = Cardinality(NumstatAfter(commits[k].sha))
        /\ \A k \in 1..(Len(commits) - 1) : commits[k].sha < commits[k + 1].sha

\* C10 as stated: the produced Commit sequence is in non-decreasing author_time
\* order, so no minutes_since_prev_commit is negative.
C10_AlwaysTimeOrdered ==
    pstate = "done" =>
        /\ NonDecreasing(CommitTimes)
        /\ \A i \in 1..Len(commits) :
            LET gap == compute_metrics(commits, 0, None).commits[i].minutes_since_prev_commit
            IN IsNone(gap) \/ Val(gap) >= 0

\* C10 amended: the parser keeps the order of the stream and does not sort, so the
\* produced sequence is in non-decreasing author_time order (and no
\* minutes_since_prev_commit is negative) whenever the header lines of the stream
\* are in non-decreasing author_time order.
C10_TimeOrderedIfStreamIs ==
    (pstate = "done" /\ NonDecreasing(HeaderTimes)) =>
        /\ NonDecreasing(CommitTimes)
        /\ \A i \in 1..Len(commits) :
            LET gap == compute_metrics(commits, 0, None).commits[i].minutes_since_prev_commit
            IN IsNone(gap) \/ Val(gap) >= 0

\* two commits produced from headers in increasing UTC order whose wall-clock
\* times decrease (the first carries a +01:00 offset)
C10_Witness ==
    /\ pstate = "done" /\ NonDecreasing(HeaderTimes)
    /\ Len(commits) = 2
    /\ commits[1].author_time < commits[2].author_time
    /\ stream[commits[1].sha].iso.wall > stream[commits[2].sha].iso.wall

(***************************************************************************)
(* Claims about the batch loop of main, checked under SpecMain.            *)
(***************************************************************************)
Logged(msg, repo_id) == \E k \in 1..Len(log) : log[k] = LogLine(msg, repo_id)
Mentioned(repo_id) == \E k \in 1..Len(log) : log[k].repo_id = repo_id
RowsOf(repo_id) == {k \in 1..Len(summary_rows) : summary_rows[k].repo_id = repo_id}

\* the pipeline of this run went through for the repository: its metrics JSON is the
\* complete file written by this run
Succeeded(repo_id) == metrics_json[repo_id] = ValidFile(run)

\* the run took the cached branch for the repository and the file loaded
ServedFromCache(repo_id) ==
    /\ Logged("Skipping (cached metrics found)", repo_id)
    /\ metrics_json[repo_id].state = "valid"

\* C3: a repository whose pipeline fails contributes no row to summary_rows and every
\* roster row after it is still processed: when the loop is over, the summary rows
\* are exactly the rows of the repositories that succeeded or were served from cache.
C3_RowsAreTheSucceeded ==
    phase = "exited" =>
        /\ \A r \in RepoIds :
            /\ Cardinality(RowsOf(r)) = (IF Succeeded(r) \/ ServedFromCache(r) THEN 1 ELSE 0)
            /\ Mentioned(r)
            /\ Logged("Failed processing", r) => RowsOf(r) = {}
        /\ \A k \in 1..(Len(summary_rows) - 1) :
            summary_rows[k].repo_id < summary_rows[k + 1].repo_id

\* the pipeline of an earlier row failed and a later row got its summary row
C3_Witness ==
    /\ phase = "exited"
    /\ \E r1, r2 \in RepoIds :
        /\ r1 < r2
        /\ Logged("Failed processing", r1)
        /\ <<r1, "log">> \in {calls[k] : k \in 1..Len(calls)}
        /\ Logged("Processed", r2)
        /\ RowsOf(r2) # {}
    /\ summary_csv = Some(summary_rows)

\* C4: a repository whose pipeline fails at any step is left with no output of the
\* failed run on disk: neither its metrics JSON nor its commits CSV was written
\* (completely or in part) by this run.
C4_NoOutputOfFailedRun ==
    \A r \in RepoIds :
        (phase \in {"loop", "exited"} /\ Logged("Failed processing", r)) =>
            /\ metrics_json[r].gen # run
            /\ commits_csv[r].gen # run

\* one step of the for loop for a row that got as far as the cache check (line 481)
RowStepPastT0 ==
    /\ phase = "loop"
    /\ row_idx \in RepoIds
    /\ row_idx' # row_idx
    /\ log' # Append(log, LogLine("Invalid t0 for repo", row_idx))

\* C5: if a metrics JSON exists for the repository and force is not set, no pipeline
\* step runs for it, the file is left unchanged and its summary row is built from
\* the persisted values; if force is set the pipeline runs whatever is persisted.
C5_CacheContract ==
    [][RowStepPastT0 =>
        /\ (metrics_json[row_idx].state # "absent" /\ ~force) =>
            /\ calls' = calls
            /\ metrics_json' = metrics_json /\ commits_csv' = commits_csv
            /\ summary_rows' =
                Append(summary_rows,
                       build_summary_row(row_idx, metrics_json[row_idx].gen))
        /\ force => \E k \in 1..Len(calls') : k > Len(calls) /\ calls'[k][1] = row_idx
      ]_vars

(***************************************************************************)
(* Malformed header lines.                                                 *)
(***************************************************************************)
\* a line that holds 0x1f separators, so is a header line, but not five of them
IsMalformedHeader(line) == ~line.blank /\ line.us > 0 /\ UsParts(line) # 6

\* C11: whenever the stream holds a header line that does not split into
\* exactly six 0x1f-delimited fields, parsing has failed with an error and
\* returns no commit list: the line is never skipped or folded into a commit.
C11_MalformedHeaderFails ==
    (\E i \in 1..Len(stream) : IsMalformedHeader(stream[i])) => pstate = "error"

(***************************************************************************)
(* Numstat lines with non-numeric counts.                                  *)
(***************************************************************************)
\* the three-field lines read while the commit opened at position h is open
NumstatOf(h) ==
    {j \in (h + 1)..Len(stream) :
        /\ IsNumstat(stream[j])
        /\ \A k \in (h + 1)..j : ~stream[k].blank}

\* C12: every three-field numstat line adds exactly 1 to files_changed of the
\* open commit, whatever its count fields are; a count field that is not a
\* base-10 integer ("-") adds 0 to its total and a numeric field of the same
\* line ("3" insertions, "2" deletions) is still added.
C12_NonNumericCountsAsZero ==
    \A k \in 1..Len(commits) :
        LET ls == NumstatOf(commits[k].sha)
        IN /\ commits[k].files_changed = Cardinality(ls)
           /\ commits[k].insertions = 3 * Cardinality({j \in ls : stream[j].ins_raw = "3"})
           /\ commits[k].deletions = 2 * Cardinality({j \in ls : stream[j].del_raw = "2"})

\* a commit of two files: one with both counts "-", one with 3 insertions and "-"
C12_Witness ==
    /\ pstate = "done"
    /\ Len(stream) = 3
    /\ stream[2].ins_raw = "-" /\ stream[2].del_raw = "-" /\ IsNumstat(stream[2])
    /\ stream[3].ins_raw = "3" /\ stream[3].del_raw = "-" /\ IsNumstat(stream[3])
    /\ Len(commits) = 1
    /\ commits[1].files_changed = 2
    /\ commits[1].insertions = 3
    /\ commits[1].deletions = 0

(***************************************************************************)
(* Window-parse failures.                                                  *)
(***************************************************************************)
GlobalWindowFailed ==
    Logged("Failed to parse global t0", 0) \/ Logged("Failed to parse global t1", 0)

\* no step of the pipeline was started for the repository and no file of it
\* was written by this run
Untouched(repo_id) ==
    /\ \A k \in 1..Len(calls) : calls[k][1] # repo_id
    /\ metrics_json[repo_id].gen # run
    /\ commits_csv[repo_id].gen # run
    /\ RowsOf(repo_id) = {}

C13_State ==
    /\ GlobalWindowFailed =>
            /\ phase = "aborted"
            /\ summary_rows = <<>>
            /\ \A r \in RepoIds : Untouched(r) /\ ~Mentioned(r)
    /\ \A r \in RepoIds : Logged("Invalid t0 for repo", r) => Untouched(r)
    /\ phase = "exited" => \A r \in RepoIds : Mentioned(r)

C13_Step ==
    /\ phase' = "aborted" => UNCHANGED diskvars
    /\ phase = "aborted" => run' = run + 1
    /\ (\E r \in RepoIds : log' = Append(log, LogLine("Invalid t0 for repo", r)))
            => UNCHANGED <<diskvars, summary_rows, calls>>

\* C13: a run whose global t0 or t1 does not parse processes no repository and
\* writes no per-repository file and no summary (the files on disk are left
\* as they were and the run ends there); a row whose own t0 override does not
\* parse is skipped alone (no pipeline step, no file, no summary row), and
\* every row of the roster is still reached before the run exits.
C13_WindowParseFailures == []C13_State /\ [][C13_Step]_vars

\* a finished run that skipped row 1 for its t0 override and processed row 2
C13_Witness ==
    /\ phase = "exited"
    /\ Logged("Invalid t0 for repo", 1)
    /\ Logged("Processed", 2)
    /\ Untouched(1)
    /\ metrics_json[2] = ValidFile(run)
    /\ summary_csv = Some(<<build_summary_row(2, run)>>)

(***************************************************************************)
(* The bulk flag of a commit.                                              *)
(***************************************************************************)
\* C14: flag_bulk_commit of a commit is true exactly when its insertions are
\* at least 1000 or its files_changed at least 50, in every window and
\* whatever its deletions are: 1000 insertions in 1 file is flagged, 0
\* insertions in 50 files is flagged, 999 insertions in 49 files is not.
C14_BulkThresholds ==
    Computed =>
        \A i \in Idx :
            LET c == m_commits[i]
                flag == Classified[i].flag_bulk_commit
            IN /\ flag <=> (c.insertions >= 1000 \/ c.files_changed >= 50)
               /\ (c.insertions = 1000 /\ c.files_changed = 1) => flag
               /\ (c.insertions = 0 /\ c.files_changed = 50) => flag
               /\ (c.insertions = 999 /\ c.files_changed = 49) => ~flag

\* 1000 insertions in 1 file before t0, 0 insertions in 50 files in the window,
\* and 999 insertions in 49 files with 2000 deletions in the window
C14_Witness ==
    /\ Computed
    /\ Len(Classified) = 3
    /\ m_commits[1].insertions = 1000 /\ m_commits[1].files_changed = 1
    /\ Classified[1].is_before_t0 /\ Classified[1].flag_bulk_commit
    /\ m_commits[2].insertions = 0 /\ m_commits[2].files_changed = 50
    /\ Classified[2].is_during_event /\ Classified[2].flag_bulk_commit
    /\ m_commits[3].insertions = 999 /\ m_commits[3].files_changed = 49
    /\ m_commits[3].deletions = 2000
    /\ Classified[3].is_during_event /\ ~Classified[3].flag_bulk_commit

(***************************************************************************)
(* Medians of the gaps between commits.                                    *)
(***************************************************************************)
DuringIdx == {i \in Idx : Classified[i].is_during_event}

\* C15: the median of an empty gap list is absent (None), never zero:
\* median_minutes_between_commits is absent exactly when there are fewer than
\* two commits, and median_minutes_between_commits_during_event is absent
\* exactly when fewer than two commits are is_during_event; a median that is
\* present comes from at least one gap.
C15_MedianAbsentIffNoGaps ==
    Computed =>
        /\ IsNone(Out.summary.median_minutes_between_commits) <=> Len(m_commits) < 2
        /\ IsNone(Out.summary.median_minutes_between_commits_during_event)
                <=> Cardinality(DuringIdx) < 2

\* three commits of which one is in the window: the overall median is present,
\* the in-window median is absent
C15_Witness ==
    /\ Computed
    /\ Len(m_commits) = 3
    /\ Cardinality(DuringIdx) = 1
    /\ ~IsNone(Out.summary.median_minutes_between_commits)
    /\ IsNone(Out.summary.median_minutes_between_commits_during_event)

(***************************************************************************)
(* The classified list, the in-window gaps, the bulk flag of the           *)
(* repository and the bucket counts.                                       *)
(***************************************************************************)
\* C16: for every commit sequence, the empty one included, the classified
\* sequence has the length of the input and its i-th commit carries the sha
\* and all base fields of the i-th input commit, unchanged and in order.
C16_ClassifiedKeepsCommits ==
    Computed =>
        /\ Len(Classified) = Len(m_commits)
        /\ \A i \in 1..Len(m_commits) :
            /\ Classified[i].sha = m_commits[i].sha
            /\ Classified[i].author_time = m_commits[i].author_time
            /\ Classified[i].insertions = m_commits[i].insertions
            /\ Classified[i].deletions = m_commits[i].deletions
            /\ Classified[i].files_changed = m_commits[i].files_changed
            /\ Classified[i].is_merge = m_commits[i].is_merge

\* three commits, not in time order, of which the first lies outside the window
C16_Witness ==
    /\ Computed
    /\ Len(m_commits) = 3
    /\ Len(Classified) = 3
    /\ ~Classified[1].is_during_event
    /\ Classified[2].is_during_event
    /\ m_commits[2].author_time > m_commits[3].author_time
    /\ Classified[3].sha = 3

\* the in-window commits, in the order of the input
DuringSeq == SelectSeq([i \in 1..Len(m_commits) |-> i], LAMBDA i : Classified[i].is_during_event)

\* for each in-window commit but the first, the time since the in-window commit before it
ExpectedEventGaps ==
    [k \in 1..(Len(DuringSeq) - 1) |->
        m_commits[DuringSeq[k + 1]].author_time - m_commits[DuringSeq[k]].author_time]

\* the list the loop builds (lines 165, 182-187)
EventGaps == Loop(LoopInit, m_commits, 1, m_t0, m_t1).minutes_between_event

\* C18: the in-window gap list holds, for each in-window commit other than the
\* first in-window one, the time since the previous in-window commit: commits
\* outside the window that lie between them are skipped over, and the
\* in-window median is the median of exactly these gaps.
C18_EventGapsSkipOutOfWindow ==
    Computed =>
        /\ EventGaps = ExpectedEventGaps
        /\ Len(ExpectedEventGaps) > 0 =>
                Out.summary.median_minutes_between_commits_during_event
                    = Some(Median2(ExpectedEventGaps))

\* an in-window commit, a commit before t0, an in-window commit: one gap, between
\* the first and the third
C18_Witness ==
    /\ Computed
    /\ Len(m_commits) = 3
    /\ Classified[1].is_during_event
    /\ Classified[2].is_before_t0
    /\ Classified[3].is_during_event
    /\ m_commits[2].author_time # m_commits[1].author_time
    /\ EventGaps = <<m_commits[3].author_time - m_commits[1].author_time>>

InWindow(c) == m_t0 <= c.author_time /\ (IsNone(m_t1) \/ c.author_time <= Val(m_t1))

\* C19: has_bulk_commits is true exactly when at least one commit is both in
\* the window [t0, t1] and bulk (insertions >= 1000 or files_changed >= 50);
\* bulk commits strictly before t0 or after t1 alone never set it.
C19_BulkFlagNeedsInWindowBulk ==
    Computed =>
        (Out.flags.has_bulk_commits <=>
            \E i \in 1..Len(m_commits) :
                /\ InWindow(m_commits[i])
                /\ (m_commits[i].insertions >= 1000 \/ m_commits[i].files_changed >= 50))

\* a bulk commit before t0, a bulk commit after t1 and a small commit in the
\* window: the flag is not set
C19_Witness ==
    /\ Computed
    /\ Len(m_commits) = 3
    /\ \E i, j, k \in Idx :
        /\ Classified[i].flag_bulk_commit /\ m_commits[i].author_time < m_t0
        /\ Classified[j].flag_bulk_commit /\ ~IsNone(m_t1)
        /\ m_commits[j].author_time > Val(m_t1) /\ m_t0 <= Val(m_t1)
        /\ InWindow(m_commits[k]) /\ ~Classified[k].flag_bulk_commit
    /\ ~Out.flags.has_bulk_commits

BucketTotal ==
    Out.time_distribution["commits_0_3h"] + Out.time_distribution["commits_3_6h"]
        + Out.time_distribution["commits_6_12h"] + Out.time_distribution["commits_12_24h"]
        + Out.time_distribution["commits_after_24h"]

\* C20: the five bucket counts sum to total_commits_during_event, the number
\* of commits in the window: every in-window commit is counted in exactly one
\* bucket and no commit outside the window is counted.
C20_BucketsSumToDuring ==
    Computed =>
        /\ BucketTotal = Out.summary.total_commits_during_event
        /\ BucketTotal = Cardinality({i \in 1..Len(m_commits) : InWindow(m_commits[i])})

\* two in-window commits, one of them exactly 24 hours after t0, and one
\* commit outside the window: the buckets hold 2
C20_Witness ==
    /\ Computed
    /\ Len(m_commits) = 3
    /\ \E i \in Idx : InWindow(m_commits[i]) /\ m_commits[i].author_time - m_t0 = 1440
    /\ \E i \in Idx : ~InWindow(m_commits[i])
    /\ Out.summary.total_commits_during_event = 2
    /\ BucketTotal = 2

(***************************************************************************)
(* Flushing of the open commit.                                            *)
(***************************************************************************)
\* the header lines that open a commit: no commit is open when the first line
\* or the line after a blank line is read
OpenedAt ==
    {h \in 1..Len(stream) :
        /\ IsHeader(stream[h]) /\ IsoParses(stream[h].iso)
        /\ (h = 1 \/ stream[h - 1].blank)}

\* a blank line follows position h in what was read so far
BlankAfter(h) == \E j \in (h + 1)..Len(stream) : stream[j].blank

\* C21: every opened commit is appended to the output exactly once, at the
\* first blank line after its header or at the end of the stream if no blank
\* line follows: before that it is the open commit and not in the output;
\* blank lines read with no commit open append nothing, so the output holds
\* the opened commits only, each once, in stream order.
C21_FlushedExactlyOnce ==
    /\ \A h \in OpenedAt :
        /\ Cardinality({k \in 1..Len(commits) : commits[k].sha = h})
                = (IF BlankAfter(h) \/ pstate = "done" THEN 1 ELSE 0)
        /\ (~BlankAfter(h) /\ pstate = "reading") =>
                (~IsNone(current) /\ Val(current).sha = h)
    /\ Len(commits) = Cardinality({h \in OpenedAt : BlankAfter(h) \/ pstate = "done"})
    /\ \A k \in 1..Len(commits) : commits[k].sha \in OpenedAt
    /\ \A k \in 1..(Len(commits) - 1) : commits[k].sha < commits[k + 1].sha

\* a commit flushed by the first of two consecutive blank lines and a last
\* commit, with no blank line after it, flushed by the end of the stream
C21_Witness ==
    /\ pstate = "done"
    /\ Len(stream) = 4
    /\ IsHeader(stream[1]) /\ stream[2].blank /\ stream[3].blank /\ IsHeader(stream[4])
    /\ Len(commits) = 2
    /\ commits[1].sha = 1
    /\ commits[2].sha = 4

(***************************************************************************)
(* A metrics JSON that cannot be loaded.                                   *)
(***************************************************************************)
\* a pipeline step of the repository was started in this step
NewCalls(repo_id) ==
    \E k \in (Len(calls) + 1)..Len(calls') : calls'[k][1] = repo_id

\* the for loop goes past the row of the repository
RowStepOf(repo_id) == phase = "loop" /\ row_idx = repo_id /\ row_idx' # row_idx

\* C22: while the metrics JSON of a repository exists and cannot be loaded,
\* every run without force skips the repository with an error: no pipeline
\* step is started for it, the file is left unchanged and no summary row is
\* added for it; the file is replaced, and the pipeline run, under force only.
C22_UnloadableCacheSticks ==
    [][\A r \in RepoIds :
        metrics_json[r].state = "partial" =>
            /\ (metrics_json'[r] # metrics_json[r] \/ NewCalls(r)) => force
            /\ (RowStepOf(r) /\ ~force) =>
                /\ metrics_json'[r] = metrics_json[r]
                /\ commits_csv'[r] = commits_csv[r]
                /\ ~NewCalls(r)
                /\ summary_rows' = summary_rows
                /\ \/ log' = log \o <<LogLine("Skipping (cached metrics found)", r),
                                       LogLine("Failed to load cached metrics", r)>>
                   \/ log' = Append(log, LogLine("Invalid t0 for repo", r))
      ]_vars

\* a later run without force that found the file left partial by run 1 and
\* skipped the repository
C22_Witness ==
    /\ run = 2
    /\ ~force
    /\ \E r \in RepoIds :
        /\ metrics_json[r] = PartialFile(1)
        /\ Logged("Failed to load cached metrics", r)
        /\ RowsOf(r) = {}
        /\ \A k \in 1..Len(calls) : calls[k][1] # r

(***************************************************************************)
(* The two bulk flags of a repository.                                     *)
(***************************************************************************)
\* C23: for every commit sequence and window, has_large_initial_commit_after_t0
\* implies has_bulk_commits.
C23_LargeInitialImpliesBulk ==
    Computed =>
        (Out.flags.has_large_initial_commit_after_t0 => Out.flags.has_bulk_commits)

\* a small commit before t0, then a bulk commit exactly at t0 that is the first
\* of the window, then a small one: both flags are set
C23_Witness ==
    /\ Computed
    /\ Len(m_commits) = 3
    /\ Classified[1].is_before_t0 /\ ~Classified[1].flag_bulk_commit
    /\ Classified[2].is_during_event /\ Classified[2].flag_bulk_commit
    /\ m_commits[2].author_time = m_t0
    /\ ~Classified[3].flag_bulk_commit
    /\ Out.flags.has_large_initial_commit_after_t0
    /\ Out.flags.has_bulk_commits

\* a reachable state in which the converse fails: the first in-window commit is
\* small and a later in-window commit is bulk
BulkWithoutLargeInitial ==
    /\ Computed
    /\ Out.flags.has_bulk_commits
    /\ ~Out.flags.has_large_initial_commit_after_t0

====
